---- MODULE Spec2Model ----
(***************************************************************************)
(* CellsGrid (src/cells_grid.py): a customtkinter frame that builds a      *)
(* rows x columns matrix of CTkFrame cells.  The model covers the two      *)
(* spacing normalizers, __destroy_all_cells and load_cells, together with   *)
(* the part of the toolkit they drive: which cell widgets exist (created    *)
(* and not destroyed) and the grid options each cell was placed with.       *)
(***************************************************************************)
EXTENDS Integers, Sequences, FiniteSets, TLC

(***************************************************************************)
(* Bounds of the model.                                                    *)
(***************************************************************************)
\* largest row / column count passed to load_cells
MaxDim == 2
\* largest integer gap passed as a spacing value
MaxGap == 2
\* number of load_cells calls in one behaviour
MaxCalls == 4

(***************************************************************************)
(* Python values.  A number is the exact rational n/d in lowest terms       *)
(* (d > 0) tagged with its Python type; a tuple or list carries its items.  *)
(***************************************************************************)
PyInt(k) == [t |-> "int", n |-> k, d |-> 1, items |-> <<>>]
PyFloat(k, m) == [t |-> "float", n |-> k, d |-> m, items |-> <<>>]
PyStr == [t |-> "str", n |-> 0, d |-> 1, items |-> <<>>]
PyNone == [t |-> "NoneType", n |-> 0, d |-> 1, items |-> <<>>]
PyTuple(s) == [t |-> "tuple", n |-> 0, d |-> 1, items |-> s]
PyList(s) == [t |-> "list", n |-> 0, d |-> 1, items |-> s]

\* isinstance(v, int)
IsInt(v) == v.t = "int"
\* isinstance(v, (int, float))
IsNumeric(v) == v.t \in {"int", "float"}
\* isinstance(v, (int, tuple, list))
IsIntOrSequence(v) == v.t \in {"int", "tuple", "list"}

\* v / 2: Python true division, always a float; n/d stays in lowest terms
Half(v) ==
    IF v.n % 2 = 0 THEN PyFloat(v.n \div 2, v.d) ELSE PyFloat(v.n, 2 * v.d)

\* v * b for a bool b: v * True is v, v * False is a zero of v's type
TimesBool(v, b) == IF b THEN v ELSE [v EXCEPT !.n = 0, !.d = 1]

\* outcome of a call: a returned value or a raised exception
Returned(val) == [ok |-> TRUE, val |-> val, err |-> "none", param |-> "none"]
Raised(kind, name) == [ok |-> FALSE, val |-> <<>>, err |-> kind, param |-> name]

(***************************************************************************)
(* __ensure_numeric_sequence: TRUE when the call returns, FALSE when it     *)
(* raises TypeError("All values in `name` must be int or float").           *)
(***************************************************************************)
EnsureNumericSequenceNoCheck(seq) == TRUE

EnsureNumericSequence(seq) == \A i \in 1..Len(seq) : IsNumeric(seq[i])

(***************************************************************************)
(* __normalize_box_spacing(value, name)                                     *)
(***************************************************************************)
NormalizeBoxSpacingPaired(value, name) ==
    IF ~IsIntOrSequence(value) THEN Raised("InvalidType", name)
    ELSE IF IsInt(value) THEN Returned(<<value, value, value, value>>)
    ELSE IF Len(value.items) = 2 THEN
        IF EnsureNumericSequence(value.items)
        THEN Returned(<<value.items[1], value.items[1],
                        value.items[2], value.items[2]>>)
        ELSE Raised("InvalidNumericElement", name)
    ELSE IF Len(value.items) = 4 THEN
        IF EnsureNumericSequence(value.items)
        THEN Returned(<<value.items[1], value.items[2],
                        value.items[3], value.items[4]>>)
        ELSE Raised("InvalidNumericElement", name)
    ELSE Raised("InvalidSpacingLength", name)

NormalizeBoxSpacing(value, name) ==
    IF ~IsIntOrSequence(value) THEN Raised("InvalidType", name)
    ELSE IF IsInt(value) THEN Returned(<<value, value, value, value>>)
    ELSE IF Len(value.items) = 2 THEN
        IF EnsureNumericSequence(value.items)
        THEN Returned(<<value.items[1], value.items[2],
                        value.items[1], value.items[2]>>)
        ELSE Raised("InvalidNumericElement", name)
    ELSE IF Len(value.items) = 4 THEN
        IF EnsureNumericSequence(value.items)
        THEN Returned(<<value.items[1], value.items[2],
                        value.items[3], value.items[4]>>)
        ELSE Raised("InvalidNumericElement", name)
    ELSE Raised("InvalidSpacingLength", name)

(***************************************************************************)
(* __normalize_cell_spacing(value)                                          *)
(***************************************************************************)
NormalizeCellSpacingUnhalvedBottom(value) ==
    IF ~IsIntOrSequence(value) THEN Raised("InvalidType", "cells_spacing")
    ELSE IF IsInt(value)
    THEN Returned(<<Half(value), Half(value), Half(value), Half(value)>>)
    ELSE IF Len(value.items) = 2 THEN
        IF EnsureNumericSequence(value.items)
        THEN Returned(<<Half(value.items[1]), Half(value.items[2]),
                        Half(value.items[1]), Half(value.items[2])>>)
        ELSE Raised("InvalidNumericElement", "cells_spacing")
    ELSE IF Len(value.items) = 4 THEN
        IF EnsureNumericSequence(value.items)
        THEN Returned(<<Half(value.items[1]), Half(value.items[2]),
                        Half(value.items[3]), value.items[4]>>)
        ELSE Raised("InvalidNumericElement", "cells_spacing")
    ELSE Raised("InvalidSpacingLength", "cells_spacing")

NormalizeCellSpacing(value) ==
    IF ~IsIntOrSequence(value) THEN Raised("InvalidType", "cells_spacing")
    ELSE IF IsInt(value)
    THEN Returned(<<Half(value), Half(value), Half(value), Half(value)>>)
    ELSE IF Len(value.items) = 2 THEN
        IF EnsureNumericSequence(value.items)
        THEN Returned(<<Half(value.items[1]), Half(value.items[2]),
                        Half(value.items[1]), Half(value.items[2])>>)
        ELSE Raised("InvalidNumericElement", "cells_spacing")
    ELSE IF Len(value.items) = 4 THEN
        IF EnsureNumericSequence(value.items)
        THEN Returned(<<Half(value.items[1]), Half(value.items[2]),
                        Half(value.items[3]), Half(value.items[4])>>)
        ELSE Raised("InvalidNumericElement", "cells_spacing")
    ELSE Raised("InvalidSpacingLength", "cells_spacing")

(***************************************************************************)
(* Cell widgets.  A cell created by the toolkit is identified by the        *)
(* load_cells call that constructed it and its position in that build, so   *)
(* two constructions never yield the same widget.  A cell record carries    *)
(* the options it was constructed and placed with.                          *)
(***************************************************************************)
CellId(call, row, col) == [call |-> call, row |-> row, column |-> col]

\* padx of cell.grid(...): (left, right); columns are counted from 0
CellPadxNoEdge(spacing, col, last_col) == <<spacing[1], spacing[3]>>

CellPadx(spacing, col, last_col) ==
    <<TimesBool(spacing[1], col # 0), TimesBool(spacing[3], col # last_col)>>

\* pady of cell.grid(...): (top, bottom); rows are counted from 0
CellPady(spacing, row, last_row) ==
    <<TimesBool(spacing[2], row # 0), TimesBool(spacing[4], row # last_row)>>

\* self.grid_shape = (array, array) if isinstance(array, int) else tuple(array)
NormalizeArray(array) ==
    IF IsInt(array) THEN <<array.n, array.n>>
    ELSE [i \in 1..Len(array.items) |-> array.items[i].n]

\* the nested creation loop of load_cells: the new matrix, row-major
BuildMatrixTransposed(call, shape, attrs, spacing, last_row, last_col) ==
    [r \in 1..shape[2] |-> [c \in 1..shape[1] |->
        [id |-> CellId(call, r - 1, c - 1),
         row |-> r - 1,
         column |-> c - 1,
         padx |-> CellPadx(spacing, c - 1, last_col),
         pady |-> CellPady(spacing, r - 1, last_row),
         border_color |-> attrs.border_color,
         border_width |-> attrs.border_width,
         corner_radius |-> attrs.corner_radius,
         fg_color |-> attrs.fg_color,
         height |-> attrs.height,
         width |-> attrs.width]]]

BuildMatrix(call, shape, attrs, spacing, last_row, last_col) ==
    [r \in 1..shape[1] |-> [c \in 1..shape[2] |->
        [id |-> CellId(call, r - 1, c - 1),
         row |-> r - 1,
         column |-> c - 1,
         padx |-> CellPadx(spacing, c - 1, last_col),
         pady |-> CellPady(spacing, r - 1, last_row),
         border_color |-> attrs.border_color,
         border_width |-> attrs.border_width,
         corner_radius |-> attrs.corner_radius,
         fg_color |-> attrs.fg_color,
         height |-> attrs.height,
         width |-> attrs.width]]]

\* the widgets held by a matrix
CellIds(matrix) ==
    UNION {{matrix[r][c].id : c \in DOMAIN matrix[r]} : r \in DOMAIN matrix}

(***************************************************************************)
(* __destroy_all_cells.  The loops run over self.grid_shape, not over the   *)
(* matrix: an index outside the matrix (or outside grid_shape) raises       *)
(* IndexError after the cells visited before it were destroyed.  Destroying *)
(* a widget that is already destroyed changes nothing.                      *)
(***************************************************************************)
DestroyDone(lv) == [raised |-> FALSE, live |-> lv]
DestroyRaised(lv) == [raised |-> TRUE, live |-> lv]

\* for col in range(self.grid_shape[1]): self._cells_matrix[row][col].destroy()
RECURSIVE DestroyColumns(_, _, _, _, _)
DestroyColumns(matrix, shape, row, col, lv) ==
    IF col >= shape[2] THEN DestroyDone(lv)
    ELSE IF row >= Len(matrix) \/ col >= Len(matrix[row + 1])
    THEN DestroyRaised(lv)
    ELSE DestroyColumns(matrix, shape, row, col + 1,
                        lv \ {matrix[row + 1][col + 1].id})

\* for row in range(self.grid_shape[0]): ...
RECURSIVE DestroyRows(_, _, _, _)
DestroyRows(matrix, shape, row, lv) ==
    IF row >= shape[1] THEN DestroyDone(lv)
    ELSE IF Len(shape) < 2 THEN DestroyRaised(lv)
    ELSE LET inner == DestroyColumns(matrix, shape, row, 0, lv)
         IN IF inner.raised THEN inner
            ELSE DestroyRows(matrix, shape, row + 1, inner.live)

DestroyAllCellsSkipped(matrix, shape, lv) == DestroyDone(lv)

DestroyAllCells(matrix, shape, lv) ==
    IF matrix = <<>> THEN DestroyDone(lv)
    ELSE IF Len(shape) < 1 THEN DestroyRaised(lv)
    ELSE DestroyRows(matrix, shape, 0, lv)

(***************************************************************************)
(* State.                                                                  *)
(***************************************************************************)
VARIABLES
    cells_matrix,        \* self._cells_matrix: sequence of rows of cell records
    grid_shape,          \* self.grid_shape: <<>> until load_cells first sets it
    cell_border_color,   \* self.cell_border_color
    cell_border_width,   \* self.cell_border_width
    cell_corner_radius,  \* self.cell_corner_radius
    cell_fg_color,       \* self.cell_fg_color
    cell_height,         \* self.cell_height
    cell_width,          \* self.cell_width
    cell_spacing,        \* self.cell_spacing: <<>> until first normalized
    last_row_index,      \* self._last_row_index
    last_column_index,   \* self._last_column_index
    live,                \* toolkit: cells constructed and not destroyed
    calls,               \* number of load_cells calls made so far
    last,                \* the latest load_cells call: its arguments, its
                         \* outcome and how many live cells it destroyed
    value,               \* argument handed to the spacing normalizers
    box_result,          \* outcome of __normalize_box_spacing(value, name)
    cell_result          \* outcome of __normalize_cell_spacing(value)

gridVars == <<cells_matrix, grid_shape, cell_border_color, cell_border_width,
              cell_corner_radius, cell_fg_color, cell_height, cell_width,
              cell_spacing, last_row_index, last_column_index, live, calls,
              last>>
normVars == <<value, box_result, cell_result>>
vars == <<gridVars, normVars>>

\* an attribute that has not been assigned yet
Unset == [t |-> "unset", n |-> 0, d |-> 1, items |-> <<>>]
NotCalled == Raised("not called", "none")

(***************************************************************************)
(* Arguments of load_cells.                                                *)
(***************************************************************************)
\* cells_spacing: ... = 10
DefaultCellsSpacing == 10

\* the keyword defaults of load_cells apart from array and cells_spacing
DefaultStyle ==
    [cells_border_color |-> "None", cells_border_width |-> PyInt(0),
     cells_corner_radius |-> PyInt(30), cells_fg_color |-> "None",
     cells_height |-> PyNone, cells_size |-> PyInt(100),
     cells_width |-> PyNone]
CustomStyle ==
    [cells_border_color |-> "gray", cells_border_width |-> PyInt(2),
     cells_corner_radius |-> PyInt(8), cells_fg_color |-> "blue",
     cells_height |-> PyInt(60), cells_size |-> PyInt(40),
     cells_width |-> PyNone]
Styles == {DefaultStyle, CustomStyle}

Args(array, spacing, style) ==
    [array |-> array,
     cells_border_color |-> style.cells_border_color,
     cells_border_width |-> style.cells_border_width,
     cells_corner_radius |-> style.cells_corner_radius,
     cells_fg_color |-> style.cells_fg_color,
     cells_height |-> style.cells_height,
     cells_size |-> style.cells_size,
     cells_spacing |-> spacing,
     cells_width |-> style.cells_width]

\* an int n (n x n) or an explicit (rows, columns) pair
ValidArrays ==
    {PyInt(k) : k \in 0..MaxDim}
    \cup {PyTuple(<<PyInt(p[1]), PyInt(p[2])>>) :
            p \in {q \in (0..MaxDim) \X (0..MaxDim) : q[1] # q[2]}}
\* sequences that do not have exactly two values
InvalidArrays ==
    {PyTuple(<<PyInt(1), PyInt(2), PyInt(3)>>), PyList(<<PyInt(MaxDim)>>)}

\* an int, a 2-sequence and a 4-sequence of numbers
ValidCellSpacings ==
    {PyInt(DefaultCellsSpacing),
     PyTuple(<<PyInt(1), PyFloat(3, 2)>>),
     PyList(<<PyInt(1), PyInt(2), PyInt(3), PyInt(4)>>)}
\* wrong type, wrong length, non-numeric element
InvalidCellSpacings ==
    {PyStr, PyTuple(<<PyInt(1), PyInt(2), PyInt(3)>>),
     PyTuple(<<PyInt(1), PyStr>>)}

SquareArrays == {PyInt(k) : k \in 1..MaxDim}

CallInputs ==
    {Args(a, s, DefaultStyle) : a \in ValidArrays, s \in ValidCellSpacings}
    \cup {Args(a, PyInt(DefaultCellsSpacing), CustomStyle) : a \in SquareArrays}
    \cup {Args(a, s, CustomStyle) : a \in SquareArrays, s \in InvalidCellSpacings}
    \cup {Args(a, PyInt(DefaultCellsSpacing), DefaultStyle) : a \in InvalidArrays}

(***************************************************************************)
(* Arguments of the spacing normalizers.                                   *)
(***************************************************************************)
SpacingItems == {PyInt(g) : g \in 0..MaxGap} \cup {PyFloat(5, 2), PyStr}
SpacingInputs ==
    SpacingItems \cup {PyNone}
    \cup UNION {{PyTuple(s), PyList(s)} :
                  s \in UNION {[1..k -> SpacingItems] : k \in 0..4}}

(***************************************************************************)
(* Initial states: the container right after __init__, no cell built.      *)
(* The attributes load_cells assigns do not exist yet; none is read before  *)
(* load_cells has assigned it, because __destroy_all_cells looks at         *)
(* grid_shape only when the matrix is not empty.                            *)
(***************************************************************************)
GridInit ==
    /\ cells_matrix = <<>>
    /\ grid_shape = <<>>
    /\ cell_border_color = "unset"
    /\ cell_border_width = Unset
    /\ cell_corner_radius = Unset
    /\ cell_fg_color = "unset"
    /\ cell_height = Unset
    /\ cell_width = Unset
    /\ cell_spacing = <<>>
    /\ last_row_index = -1
    /\ last_column_index = -1
    /\ live = {}
    /\ calls = 0
    /\ last = [args |-> Args(PyInt(0), PyInt(0), DefaultStyle),
               result |-> "none", destroyed |-> 0]

Init ==
    /\ GridInit
    /\ value = PyNone
    /\ box_result = NotCalled
    /\ cell_result = NotCalled

NormInit ==
    /\ GridInit
    /\ value \in SpacingInputs
    /\ box_result = NotCalled
    /\ cell_result = NotCalled

(***************************************************************************)
(* load_cells(array, cells_border_color, ..., cells_width)                 *)
(***************************************************************************)
LoadCells(a) ==
    /\ calls < MaxCalls
    /\ calls' = calls + 1
    /\ LET destroyed == DestroyAllCells(cells_matrix, grid_shape, live)
           Outcome(args, result, remaining) ==
               [args |-> args, result |-> result,
                destroyed |-> Cardinality(live) - Cardinality(remaining)]
           shape == NormalizeArray(a.array)
           height == IF a.cells_height # PyNone THEN a.cells_height
                     ELSE a.cells_size
           width == IF a.cells_width # PyNone THEN a.cells_width
                    ELSE a.cells_size
           spacing == NormalizeCellSpacing(a.cells_spacing)
           attrs == [border_color |-> a.cells_border_color,
                     border_width |-> a.cells_border_width,
                     corner_radius |-> a.cells_corner_radius,
                     fg_color |-> a.cells_fg_color,
                     height |-> height,
                     width |-> width]
       IN IF destroyed.raised THEN
              \* IndexError out of __destroy_all_cells (line 152)
              /\ live' = destroyed.live
              /\ last' = Outcome(a, "IndexError", destroyed.live)
              /\ UNCHANGED <<cells_matrix, grid_shape, cell_border_color,
                             cell_border_width, cell_corner_radius,
                             cell_fg_color, cell_height, cell_width,
                             cell_spacing, last_row_index, last_column_index>>
          ELSE IF Len(shape) # 2 THEN
              \* ValueError of lines 87-90, after grid_shape was assigned
              /\ live' = destroyed.live
              /\ grid_shape' = shape
              /\ last' = Outcome(a, "InvalidShape", destroyed.live)
              /\ UNCHANGED <<cells_matrix, cell_border_color,
                             cell_border_width, cell_corner_radius,
                             cell_fg_color, cell_height, cell_width,
                             cell_spacing, last_row_index, last_column_index>>
          ELSE IF ~spacing.ok THEN
              \* exception out of __normalize_cell_spacing (line 102)
              /\ live' = destroyed.live
              /\ grid_shape' = shape
              /\ cell_border_color' = a.cells_border_color
              /\ cell_border_width' = a.cells_border_width
              /\ cell_corner_radius' = a.cells_corner_radius
              /\ cell_fg_color' = a.cells_fg_color
              /\ cell_height' = height
              /\ cell_width' = width
              /\ last' = Outcome(a, spacing.err, destroyed.live)
              /\ UNCHANGED <<cells_matrix, cell_spacing, last_row_index,
                             last_column_index>>
          ELSE
              /\ grid_shape' = shape
              /\ cell_border_color' = a.cells_border_color
              /\ cell_border_width' = a.cells_border_width
              /\ cell_corner_radius' = a.cells_corner_radius
              /\ cell_fg_color' = a.cells_fg_color
              /\ cell_height' = height
              /\ cell_width' = width
              /\ cell_spacing' = spacing.val
              /\ last_row_index' = shape[1] - 1
              /\ last_column_index' = shape[2] - 1
              /\ cells_matrix' = BuildMatrix(calls + 1, shape, attrs,
                                             spacing.val, shape[1] - 1,
                                             shape[2] - 1)
              /\ live' = destroyed.live \cup CellIds(cells_matrix')
              /\ last' = Outcome(a, "ok", destroyed.live)
    /\ UNCHANGED normVars

\* get_cells_grid()
GetCellsGrid == cells_matrix

Next == \E a \in CallInputs : LoadCells(a)

Spec == Init /\ [][Next]_vars

(***************************************************************************)
(* The normalizers applied to one argument.                                *)
(***************************************************************************)
\* self.__normalize_box_spacing(margin, "margin") / (padding, "padding")
NormalizeBox(name) ==
    /\ box_result = NotCalled
    /\ box_result' = NormalizeBoxSpacing(value, name)
    /\ UNCHANGED <<gridVars, value, cell_result>>

\* self.__normalize_cell_spacing(cells_spacing)
NormalizeCell ==
    /\ cell_result = NotCalled
    /\ cell_result' = NormalizeCellSpacing(value)
    /\ UNCHANGED <<gridVars, value, box_result>>

NormNext ==
    \/ \E name \in {"margin", "padding"} : NormalizeBox(name)
    \/ NormalizeCell

NormSpec == NormInit /\ [][NormNext]_vars

(***************************************************************************)
(* Vocabulary of the properties.                                           *)
(***************************************************************************)
\* numeric equality of two Python numbers (1 == 1.0)
NumEq(x, y) == IsNumeric(x) /\ IsNumeric(y) /\ x.n * y.d = y.n * x.d
IsZero(x) == IsNumeric(x) /\ x.n = 0
\* x is exactly half of y
IsHalfOf(x, y) == IsNumeric(x) /\ IsNumeric(y) /\ 2 * x.n * y.d = y.n * x.d

IsSequence(v) == v.t \in {"tuple", "list"}
\* the three accepted spacing forms
SpacingIsValid(v) ==
    \/ v.t = "int"
    \/ /\ IsSequence(v)
       /\ Len(v.items) \in {2, 4}
       /\ \A i \in 1..Len(v.items) : v.items[i].t \in {"int", "float"}
\* an int or a sequence of exactly two ints
ArrayIsValid(v) ==
    \/ v.t = "int"
    \/ IsSequence(v) /\ Len(v.items) = 2
ArgsAreValid(a) == ArrayIsValid(a.array) /\ SpacingIsValid(a.cells_spacing)

RequestedRows(a) == IF a.array.t = "int" THEN a.array.n ELSE a.array.items[1].n
RequestedCols(a) == IF a.array.t = "int" THEN a.array.n ELSE a.array.items[2].n

MatrixHasShape(matrix, rows, cols) ==
    /\ Len(matrix) = rows
    /\ \A r \in 1..Len(matrix) : Len(matrix[r]) = cols

\* a matrix without the identity of its cells: what is laid out, and how
Layout(matrix) ==
    [r \in DOMAIN matrix |-> [c \in DOMAIN matrix[r] |->
        [row |-> matrix[r][c].row,
         column |-> matrix[r][c].column,
         padx |-> matrix[r][c].padx,
         pady |-> matrix[r][c].pady,
         border_color |-> matrix[r][c].border_color,
         border_width |-> matrix[r][c].border_width,
         corner_radius |-> matrix[r][c].corner_radius,
         fg_color |-> matrix[r][c].fg_color,
         height |-> matrix[r][c].height,
         width |-> matrix[r][c].width]]]

SpacingErrors == {"InvalidType", "InvalidSpacingLength", "InvalidNumericElement"}
LoadCellsStep == calls' = calls + 1

(***************************************************************************)
(* Properties of load_cells.                                               *)
(***************************************************************************)

\* C1: a load_cells call that fails with the shape error destroys no cell:
\* get_cells_grid() returns the same matrix, of the same live cells, as
\* before the call.
C1_ShapeErrorLeavesMatrixIntact ==
    [][(LoadCellsStep /\ last'.result = "InvalidShape")
        => (cells_matrix' = cells_matrix /\ live' = live)]_vars

\* C2: a load_cells call with a valid shape whose cells_spacing fails
\* normalization leaves the matrix, the live cells and the recorded grid
\* shape as they were before the call (stated for a call made while a
\* built matrix is on display).
C2_SpacingErrorCommitsNothing ==
    [][(LoadCellsStep /\ live # {} /\ last'.result \in SpacingErrors)
        => (/\ cells_matrix' = cells_matrix
            /\ live' = live
            /\ grid_shape' = grid_shape)]_vars

\* C3: no live cell lies outside the current matrix, and once a build has
\* created its cells the live cells are exactly the cells of that build:
\* every cell of an earlier call has been destroyed.
C3_NoCellLeaks ==
    /\ live \subseteq CellIds(cells_matrix)
    /\ last.result = "ok" =>
         /\ live = CellIds(cells_matrix)
         /\ \A id \in live : id.call = calls
C3_Witness ==
    /\ last.result = "ok"
    /\ last.destroyed > 0
    /\ live # {}

\* C4: after a successful load_cells call the matrix has exactly the
\* requested rows, each of exactly the requested columns, and holds only
\* cells created by that call, each a distinct live cell.
C4_MatrixHasRequestedShape ==
    last.result = "ok" =>
        /\ MatrixHasShape(GetCellsGrid, RequestedRows(last.args),
                          RequestedCols(last.args))
        /\ \A r \in DOMAIN GetCellsGrid : \A c \in DOMAIN GetCellsGrid[r] :
              /\ GetCellsGrid[r][c].id.call = calls
              /\ GetCellsGrid[r][c].id \in live
        /\ Cardinality(CellIds(GetCellsGrid))
              = RequestedRows(last.args) * RequestedCols(last.args)
C4_Witness ==
    /\ last.result = "ok"
    /\ last.destroyed > Cardinality(live)
    /\ RequestedRows(last.args) # RequestedCols(last.args)
    /\ live # {}

\* C5: after a successful build the cell at (row, col) has left margin =
\* left half-gap if col # 0 else 0, right margin = right half-gap if
\* col # last column else 0, top margin = top half-gap if row # 0 else 0,
\* bottom margin = bottom half-gap if row # last row else 0, where each
\* half-gap is half of the requested gap of that side.
C5_EdgeAwareMargins ==
    last.result = "ok" =>
        LET rows == RequestedRows(last.args)
            cols == RequestedCols(last.args)
            sp == last.args.cells_spacing
            \* the requested gaps as (left, top, right, bottom)
            gap == IF sp.t = "int" THEN <<sp, sp, sp, sp>>
                   ELSE IF Len(sp.items) = 2
                   THEN <<sp.items[1], sp.items[2], sp.items[1], sp.items[2]>>
                   ELSE sp.items
            Margin(m, side, interior) ==
                IF interior
                THEN NumEq(m, cell_spacing[side]) /\ IsHalfOf(m, gap[side])
                ELSE IsZero(m)
        IN \A r \in DOMAIN cells_matrix : \A c \in DOMAIN cells_matrix[r] :
              LET cell == cells_matrix[r][c] IN
              /\ cell.row = r - 1 /\ cell.column = c - 1
              /\ Margin(cell.padx[1], 1, cell.column # 0)
              /\ Margin(cell.padx[2], 3, cell.column # cols - 1)
              /\ Margin(cell.pady[1], 2, cell.row # 0)
              /\ Margin(cell.pady[2], 4, cell.row # rows - 1)
C5_Witness ==
    /\ last.result = "ok"
    /\ Len(cells_matrix) = 2
    /\ Len(cells_matrix[1]) = 2
    /\ IsZero(cells_matrix[1][1].padx[1])
    /\ ~IsZero(cells_matrix[1][1].padx[2])
    /\ ~IsZero(cells_matrix[2][2].pady[1])
    /\ IsZero(cells_matrix[2][2].pady[2])
    /\ ~NumEq(cell_spacing[1], cell_spacing[3])

\* C9: two load_cells calls in a row with the same valid arguments: the
\* second leaves a matrix with the same shape, styling, size and margins at
\* every (row, col) as the first, made only of new cells, and every cell of
\* the first matrix is destroyed.
C9_RepeatedCallSameLayout ==
    [][(LoadCellsStep /\ calls >= 1 /\ last'.args = last.args
            /\ ArgsAreValid(last.args))
        => (/\ last'.result = "ok"
            /\ Layout(cells_matrix') = Layout(cells_matrix)
            /\ CellIds(cells_matrix') \cap CellIds(cells_matrix) = {}
            /\ CellIds(cells_matrix) \cap live' = {}
            /\ CellIds(cells_matrix') \subseteq live')]_vars

\* C10: whatever calls failed before, a load_cells call with valid
\* arguments completes without error and leaves a matrix of exactly the
\* requested rows x cols live cells.
C10_ValidCallSucceedsAfterFailure ==
    (calls >= 1 /\ ArgsAreValid(last.args)) =>
        /\ last.result = "ok"
        /\ MatrixHasShape(cells_matrix, RequestedRows(last.args),
                          RequestedCols(last.args))
        /\ CellIds(cells_matrix) \subseteq live

(***************************************************************************)
(* Properties of the spacing normalizers.                                  *)
(***************************************************************************)
BoxCalled == box_result # NotCalled
CellCalled == cell_result # NotCalled
IsNumericSequenceOfLen(v, k) ==
    /\ IsSequence(v)
    /\ Len(v.items) = k
    /\ \A i \in 1..k : v.items[i].t \in {"int", "float"}

\* C6: box spacing normalization returns (v, v, v, v) for an int v,
\* (x, y, x, y) for a numeric 2-sequence (x, y) and (l, t, r, b) unchanged
\* for a numeric 4-sequence: always four values, (left, top, right, bottom).
C6_BoxNormalization ==
    BoxCalled =>
        /\ value.t = "int" =>
              /\ box_result.ok
              /\ box_result.val = <<value, value, value, value>>
        /\ IsNumericSequenceOfLen(value, 2) =>
              /\ box_result.ok
              /\ box_result.val = <<value.items[1], value.items[2],
                                    value.items[1], value.items[2]>>
        /\ IsNumericSequenceOfLen(value, 4) =>
              /\ box_result.ok
              /\ box_result.val = value.items
        /\ box_result.ok => Len(box_result.val) = 4
C6_Witness ==
    /\ BoxCalled
    /\ box_result.ok
    /\ IsNumericSequenceOfLen(value, 2)
    /\ value.items[1] # value.items[2]
    /\ box_result.val[3] = value.items[1]

\* C7: cell spacing normalization fails on exactly the inputs on which box
\* spacing normalization fails, with the same kind of error, and where both
\* succeed each of its four values is exactly half of the box value.
C7_CellIsHalfOfBox ==
    (BoxCalled /\ CellCalled) =>
        /\ cell_result.ok = box_result.ok
        /\ cell_result.err = box_result.err
        /\ cell_result.ok =>
              /\ Len(cell_result.val) = 4
              /\ Len(box_result.val) = 4
              /\ \A i \in 1..4 : IsHalfOf(cell_result.val[i], box_result.val[i])
C7_Witness ==
    /\ BoxCalled
    /\ CellCalled
    /\ cell_result.ok
    /\ IsNumericSequenceOfLen(value, 4)
    /\ value.items[4].t = "float"
    /\ value.items[1].n = 1
    /\ ~NumEq(cell_result.val[4], box_result.val[4])

\* C8: both normalizers reject every invalid input and return no value for
\* it: invalid type for a value that is neither int nor tuple/list, invalid
\* length for a sequence of length other than 2 or 4, invalid numeric
\* element for a sequence of length 2 or 4 with a non-numeric item; only the
\* three accepted forms yield a result.
C8_InvalidInputsRejected ==
    \A res \in ({box_result, cell_result} \ {NotCalled}) :
        /\ res.ok <=> SpacingIsValid(value)
        /\ ~res.ok => res.val = <<>>
        /\ ~(value.t = "int" \/ IsSequence(value)) => res.err = "InvalidType"
        /\ (IsSequence(value) /\ Len(value.items) \notin {2, 4})
              => res.err = "InvalidSpacingLength"
        /\ (IsSequence(value) /\ Len(value.items) \in {2, 4}
              /\ \E i \in 1..Len(value.items) :
                    value.items[i].t \notin {"int", "float"})
              => res.err = "InvalidNumericElement"
C8_Witness ==
    /\ BoxCalled
    /\ CellCalled
    /\ IsSequence(value)
    /\ Len(value.items) = 4
    /\ value.items[3] = PyStr
    /\ box_result.err = "InvalidNumericElement"
    /\ cell_result.err = "InvalidNumericElement"

====
